---- MODULE Spec2Model ----
(***************************************************************************)
(* Receipt processor (src/main.go): the validator, the points engine and   *)
(* the HTTP handlers around the in-memory receipt store.                   *)
(*                                                                         *)
(* Go strings are TLA+ strings (one character per byte: every input used   *)
(* here is ASCII).  Go's int is the 64-bit two's complement integer and    *)
(* float64 the IEEE 754 binary64 number; both are computed exactly, on     *)
(* naturals of any size, because a total or a price is a digit string of   *)
(* any length (the validator's \d+).                                       *)
(*                                                                         *)
(* The arithmetic is written as functions, f[x], not operators: a function *)
(* is applied to the value of its argument, so that every intermediate     *)
(* number is computed once.                                                *)
(*                                                                         *)
(* Spec is the server: concurrent handlers, the mutex and the map.         *)
(* EngineSpec is validateReceipt and calculatePoints alone, on receipts    *)
(* drawn from pools of field values.  The properties follow each of them.  *)
(***************************************************************************)
EXTENDS Integers, Sequences, FiniteSets

(***************************************************************************)
(* Naturals of any size: little-endian sequences of base-10000 limbs with  *)
(* no leading zero limb; <<>> is 0.                                        *)
(***************************************************************************)
Big == Seq(Nat)

Limb(a, i) == IF i <= Len(a) THEN a[i] ELSE 0

BNorm[a \in Big] ==
    IF a = <<>> THEN <<>>
    ELSE IF a[Len(a)] = 0 THEN BNorm[SubSeq(a, 1, Len(a) - 1)]
    ELSE a

BNat(n) == BNorm[<<n % 10000, (n \div 10000) % 10000, n \div 100000000>>]

\* the limbs of a + b from limb i on, given the limbs below (low) and the carry c
BAddC[a \in Big, b \in Big, i \in Nat, c \in Nat, low \in Big] ==
    IF i > Len(a) /\ i > Len(b)
    THEN (IF c = 0 THEN low ELSE Append(low, c))
    ELSE BAddC[a, b, i + 1, (Limb(a, i) + Limb(b, i) + c) \div 10000,
               Append(low, (Limb(a, i) + Limb(b, i) + c) % 10000)]

BAdd[a \in Big, b \in Big] == BAddC[a, b, 1, 0, <<>>]

\* a - b, for a >= b; c is the borrow
BSubC[a \in Big, b \in Big, i \in Nat, c \in Nat, low \in Big] ==
    IF i > Len(a) THEN BNorm[low]
    ELSE IF a[i] - Limb(b, i) - c < 0
    THEN BSubC[a, b, i + 1, 1, Append(low, a[i] - Limb(b, i) - c + 10000)]
    ELSE BSubC[a, b, i + 1, 0, Append(low, a[i] - Limb(b, i) - c)]

BSub[a \in Big, b \in Big] == BSubC[a, b, 1, 0, <<>>]

\* a < b
BLess[a \in Big, b \in Big] ==
    \/ Len(a) < Len(b)
    \/ /\ Len(a) = Len(b)
       /\ \E i \in 1..Len(a) : a[i] < b[i] /\ \A j \in (i + 1)..Len(a) : a[j] = b[j]

\* a * k + c, for 0 <= k, c <= 10000
BMulSmallC[a \in Big, k \in Nat, i \in Nat, c \in Nat, low \in Big] ==
    IF i > Len(a)
    THEN BNorm[IF c = 0 THEN low ELSE Append(low, c)]
    ELSE BMulSmallC[a, k, i + 1, (a[i] * k + c) \div 10000, Append(low, (a[i] * k + c) % 10000)]

BMulSmall[a \in Big, k \in Nat] == BMulSmallC[a, k, 1, 0, <<>>]

\* a * b: the sum of a * b[i] * 10000^(i-1), from the highest limb of b down
BMulAt[a \in Big, b \in Big, i \in Nat, sum \in Big] ==
    IF i = 0 THEN sum
    ELSE BMulAt[a, b, i - 1, BAdd[BMulSmall[a, b[i]], BNorm[<<0>> \o sum]]]

BMul[a \in Big, b \in Big] == BMulAt[a, b, Len(b), <<>>]

\* quotient and remainder of a by k, for 0 < k <= 10000: long division from
\* the highest limb down, with the remainder r and the quotient's limbs q so far
BDivSmallAt[a \in Big, k \in Nat, i \in Nat, r \in Nat, q \in Big] ==
    IF i = 0 THEN [q |-> BNorm[q], r |-> r]
    ELSE BDivSmallAt[a, k, i - 1, (r * 10000 + a[i]) % k,
                     <<(r * 10000 + a[i]) \div k>> \o q]

BDivSmall[a \in Big, k \in Nat] == BDivSmallAt[a, k, Len(a), 0, <<>>]

BOdd(a) == a # <<>> /\ a[1] % 2 = 1

\* a * 2^k
BShl[a \in Big, k \in Nat] ==
    IF k = 0 \/ a = <<>> THEN a
    ELSE IF k >= 13 THEN BShl[BMulSmall[a, 8192], k - 13]
    ELSE BShl[BMulSmall[a, 2], k - 1]

BPow2(k) == BShl[<<1>>, k]

\* a quotient with its remainder
QuotRem == [q : Big, r : Nat]

\* one step of BShrRound: the quotient and remainder d of a by 2^13 or by 2
BShrStep[d \in QuotRem, k \in Nat, rnd \in Nat, st \in BOOLEAN] ==
    IF k > 13 THEN [a |-> d.q, k |-> k - 13, rnd |-> 0, st |-> st \/ rnd = 1 \/ d.r # 0]
    ELSE [a |-> d.q, k |-> k - 1, rnd |-> d.r, st |-> st \/ rnd = 1]

\* a / 2^k rounded to the nearest integer, ties to the even one; rnd is the
\* bit shifted out last and st tells whether a bit shifted out before was set
ShiftState == [a : Big, k : Nat, rnd : Nat, st : BOOLEAN]

BShrRoundAt[s \in ShiftState] ==
    IF s.k = 0
    THEN (IF s.rnd = 1 /\ (s.st \/ BOdd(s.a)) THEN BAdd[s.a, <<1>>] ELSE s.a)
    ELSE BShrRoundAt[BShrStep[BDivSmall[s.a, IF s.k > 13 THEN 8192 ELSE 2], s.k, s.rnd, s.st]]

BShrRound[a \in Big, k \in Nat, sticky \in BOOLEAN] ==
    BShrRoundAt[[a |-> a, k |-> k, rnd |-> 0, st |-> sticky]]

\* floor(a / 2^k)
BShr[a \in Big, k \in Nat] ==
    IF k = 0 \/ a = <<>> THEN a
    ELSE IF k >= 13 THEN BShr[BDivSmall[a, 8192].q, k - 13]
    ELSE BShr[BDivSmall[a, 2].q, k - 1]

\* 2^k divides a
BDivisible[a \in Big, k \in Nat] ==
    IF k = 0 \/ a = <<>> THEN TRUE
    ELSE IF BOdd(a) THEN FALSE
    ELSE BDivisible[BDivSmall[a, 2].q, k - 1]

\* the number of bits of a: the least n with a < 2^n
BBitLen[a \in Big] ==
    IF a = <<>> THEN 0
    ELSE IF Len(a) > 1 THEN 13 + BBitLen[BDivSmall[a, 8192].q]
    ELSE IF a[1] >= 8192 THEN 14
    ELSE 1 + BBitLen[BDivSmall[a, 2].q]

(***************************************************************************)
(* float64: a finite, non-negative binary64 number is [m, e], its value    *)
(* m * 2^e with 2^52 <= m < 2^53, or m = 0 (e = 0) for zero.  Infinities   *)
(* need a decimal of more than 308 digits and subnormals a value below     *)
(* 2^-1022; neither arises from a decimal with two fractional digits of    *)
(* the lengths used here.                                                  *)
(***************************************************************************)
Float64 == [m : Big, e : Int]

F64Zero == [m |-> <<>>, e |-> 0]

Two52 == BPow2(52)

\* n of L bits, L > 53, rounded to 53 bits: r is n / 2^(L-53) rounded
F64Carry[r \in Big, e \in Int] ==
    IF r = BMulSmall[Two52, 2] THEN [m |-> Two52, e |-> e + 1] ELSE [m |-> r, e |-> e]

\* the float64 nearest to (n + f) * 2^e, ties to even, for n # 0 of L bits,
\* where 0 < f < 1 when sticky and f = 0 otherwise (sticky only with L >= 55)
F64RoundBits[n \in Big, e \in Int, sticky \in BOOLEAN, L \in Nat] ==
    IF L <= 53 THEN [m |-> BShl[n, 53 - L], e |-> e - (53 - L)]
    ELSE F64Carry[BShrRound[n, L - 53, sticky], e + (L - 53)]

F64Round[n \in Big, e \in Int, sticky \in BOOLEAN] ==
    IF n = <<>> THEN F64Zero ELSE F64RoundBits[n, e, sticky, BBitLen[n]]

\* n * 2^s / d for n of L bits, with s such that the quotient has 55 bits or more
F64Scaled[n \in Big, d \in Nat, s \in Nat] ==
    LET q == BDivSmall[BShl[n, s], d] IN F64Round[q.q, 0 - s, q.r # 0]

\* the float64 nearest to n / d, for 0 < d <= 10000
F64Ratio[n \in Big, d \in Nat] ==
    IF n = <<>> THEN F64Zero
    ELSE LET L == BBitLen[n] IN F64Scaled[n, d, IF L >= 69 THEN 0 ELSE 69 - L]

\* x * y, rounded to nearest
F64Mul[x \in Float64, y \in Float64] ==
    IF x.m = <<>> \/ y.m = <<>> THEN F64Zero
    ELSE F64Round[BMul[x.m, y.m], x.e + y.e, FALSE]

F64IsInt[x \in Float64] == x.e >= 0 \/ BDivisible[x.m, 0 - x.e]

\* the integer part of x, a natural
F64Trunc[x \in Float64] == IF x.e >= 0 THEN BShl[x.m, x.e] ELSE BShr[x.m, 0 - x.e]

\* math.Ceil(x), a natural
F64Ceil[x \in Float64] == IF F64IsInt[x] THEN F64Trunc[x] ELSE BAdd[F64Trunc[x], <<1>>]

\* math.Mod(x, y) == 0 for y a power of two (y.m = 2^52): x / y is an integer
F64ModIsZero[x \in Float64, y \in Float64] ==
    x.m = <<>> \/ x.e - y.e - 52 >= 0 \/ BDivisible[x.m, 0 - (x.e - y.e - 52)]

(***************************************************************************)
(* Decimal text.                                                           *)
(***************************************************************************)
Char(s, i) == SubSeq(s, i, i)

Digits == {"0", "1", "2", "3", "4", "5", "6", "7", "8", "9"}

DigitVal(c) ==
    CASE c = "0" -> 0 [] c = "1" -> 1 [] c = "2" -> 2 [] c = "3" -> 3
      [] c = "4" -> 4 [] c = "5" -> 5 [] c = "6" -> 6 [] c = "7" -> 7
      [] c = "8" -> 8 [] c = "9" -> 9

DigitChar(d) == Char("0123456789", d + 1)

\* the natural a digit string denotes: acc is the value of the first i-1 digits
BFromDigitsAt[s \in STRING, i \in Nat, acc \in Big] ==
    IF i > Len(s) THEN acc
    ELSE BFromDigitsAt[s, i + 1, BMulSmallC[acc, 10, 1, DigitVal(Char(s, i)), <<>>]]

BFromDigits[s \in STRING] == BFromDigitsAt[s, 1, <<>>]

Limb4(d) ==
    DigitChar(d \div 1000) \o DigitChar((d \div 100) % 10)
        \o DigitChar((d \div 10) % 10) \o DigitChar(d % 10)

Itoa[n \in Nat] == IF n < 10 THEN DigitChar(n) ELSE Itoa[n \div 10] \o DigitChar(n % 10)

BLimbsToString[a \in Big, i \in Nat] ==
    IF i = 0 THEN "" ELSE Limb4(a[i]) \o BLimbsToString[a, i - 1]

\* the decimal digits of a natural, without leading zeros
BToString[a \in Big] ==
    IF a = <<>> THEN "0"
    ELSE Itoa[a[Len(a)]] \o BLimbsToString[a, Len(a) - 1]

\* strconv.ParseFloat(s, 64) of a decimal of the form \d+\.\d{2}: the
\* float64 nearest to it (strconv rounds correctly)
ParseFloat[s \in STRING] ==
    F64Ratio[BFromDigits[SubSeq(s, 1, Len(s) - 3) \o SubSeq(s, Len(s) - 1, Len(s))], 100]

\* a number of hundredths as text with two decimals
Fixed2[d \in QuotRem] ==
    BToString[d.q] \o "." \o DigitChar(d.r \div 10) \o DigitChar(d.r % 10)

\* fmt's %.2f: x rounded to two decimals, ties to even on the exact value
FormatFixed2[x \in Float64] ==
    IF x.e >= 0 THEN Fixed2[BDivSmall[BShl[BMulSmall[x.m, 100], x.e], 100]]
    ELSE Fixed2[BDivSmall[BShrRound[BMulSmall[x.m, 100], 0 - x.e, FALSE], 100]]

(***************************************************************************)
(* Go's int on a 64-bit platform: the two's complement pattern, a natural  *)
(* below 2^64 (a pattern of 2^63 or more is the negative u - 2^64).        *)
(***************************************************************************)
Two63 == BPow2(63)

Two64 == BPow2(64)

IntWrap[s \in Big] == IF BLess[s, Two64] THEN s ELSE BSub[s, Two64]

IntAdd[a \in Big, b \in Big] == IntWrap[BAdd[a, b]]

IntIsNeg(u) == ~BLess[u, Two63]

\* fmt's %d
IntToString[u \in Big] ==
    IF IntIsNeg(u) THEN "-" \o BToString[BSub[Two64, u]] ELSE BToString[u]

\* int(x) of a float64 whose value is the natural n: defined by Go below
\* 2^63 only (out of range the result is implementation-dependent)
IntOfNat[n \in Big] == CASE BLess[n, Two63] -> n

(***************************************************************************)
(* Strings, regular expressions and the time package.                      *)
(***************************************************************************)
CharsOf(s) == {Char(s, i) : i \in 1..Len(s)}

Lower == CharsOf("abcdefghijklmnopqrstuvwxyz")

Upper == CharsOf("ABCDEFGHIJKLMNOPQRSTUVWXYZ")

\* the regexp classes \w and \s (RE2: ASCII only)
WordChars == Lower \cup Upper \cup Digits \cup {"_"}

SpaceChars == {"\t", "\n", "\f", "\r", " "}

\* ^[class]+$
MatchAll(s, class) == s # "" /\ \A i \in 1..Len(s) : Char(s, i) \in class

\* ^\d+\.\d{2}$
MatchDecimal(s) ==
    /\ Len(s) >= 4
    /\ Char(s, Len(s) - 2) = "."
    /\ \A i \in 1..Len(s) : i # Len(s) - 2 => Char(s, i) \in Digits

IsDigitAt(s, i) == i <= Len(s) /\ Char(s, i) \in Digits

Num2(s, i) == 10 * DigitVal(Char(s, i)) + DigitVal(Char(s, i + 1))

daysIn(month, year) ==
    IF month = 2
    THEN (IF year % 4 = 0 /\ (year % 100 # 0 \/ year % 400 = 0) THEN 29 ELSE 28)
    ELSE IF month \in {4, 6, 9, 11} THEN 30 ELSE 31

\* time.Parse("2006-01-02", s): four digits, "-", two digits, "-", two
\* digits and nothing after; month 1..12, day 1..daysIn
ParseDate(s) ==
    LET shape == /\ Len(s) = 10
                 /\ \A i \in {1, 2, 3, 4, 6, 7, 9, 10} : IsDigitAt(s, i)
                 /\ Char(s, 5) = "-" /\ Char(s, 8) = "-"
        year  == 100 * Num2(s, 1) + Num2(s, 3)
        month == Num2(s, 6)
        day   == Num2(s, 9)
    IN  IF shape /\ month \in 1..12 /\ day >= 1 /\ day <= daysIn(month, year)
        THEN [ok |-> TRUE, day |-> day]
        ELSE [ok |-> FALSE, day |-> 1]

\* time.Parse("15:04", s): an hour of one or two digits (the layout's 15
\* takes two digits when the second character is one), ":", two digits
\* and nothing after; hour 0..23, minute 0..59
ParseTime(s) ==
    LET two  == IsDigitAt(s, 1) /\ IsDigitAt(s, 2)
        hlen == IF two THEN 2 ELSE 1
        hour == IF two THEN Num2(s, 1) ELSE DigitVal(Char(s, 1))
        shape == /\ IsDigitAt(s, 1)
                 /\ Len(s) = hlen + 3
                 /\ Char(s, hlen + 1) = ":"
                 /\ IsDigitAt(s, hlen + 2) /\ IsDigitAt(s, hlen + 3)
    IN  IF shape /\ hour < 24 /\ Num2(s, hlen + 2) < 60
        THEN [ok |-> TRUE, hour |-> hour]
        ELSE [ok |-> FALSE, hour |-> 0]

\* strings.TrimSpace on ASCII text (a vertical tab, U+0085 and U+00A0 are
\* trimmed too, and none of them passes the validator)
TrimSpace(s) ==
    LET keep == {i \in 1..Len(s) : Char(s, i) \notin SpaceChars}
    IN  IF keep = {} THEN ""
        ELSE SubSeq(s, CHOOSE i \in keep : \A j \in keep : i <= j,
                       CHOOSE i \in keep : \A j \in keep : i >= j)

(***************************************************************************)
(* The validator.                                                          *)
(***************************************************************************)
NoError == "<nil>"

ErrRetailer == "retailer name is invalid"

ErrDate == "purchaseDate must be in YYYY-MM-DD format"

ErrTime == "purchaseTime must be in HH:mm 24-hour format"

ErrItems == "items array must have at least one item"

ErrDescription == "item shortDescription is invalid"

ErrPrice == "item price must be a valid decimal number"

ErrTotal == "total must be a valid decimal number"

\* the retailer's characters without \w's underscore and \s's tab, line feed,
\* form feed and carriage return (C8_RetailerAmended tells it from RetailerChars)
RetailerCharsNarrow == Lower \cup Upper \cup Digits \cup {" ", "-", "&"}

RetailerChars == WordChars \cup SpaceChars \cup {"-", "&"}

DescriptionChars == WordChars \cup SpaceChars \cup {"-"}

\* the loop over the items with the two checks of an item exchanged
\* (C3_FirstViolatedCheck tells it from validateItems)
RECURSIVE validateItemsPriceFirst(_, _)
validateItemsPriceFirst(items, index) ==
    IF index > Len(items) THEN NoError
    ELSE IF ~MatchDecimal(items[index].Price) THEN ErrPrice
    ELSE IF items[index].ShortDescription = "" THEN ErrDescription
    ELSE IF ~MatchAll(items[index].ShortDescription, DescriptionChars) THEN ErrDescription
    ELSE validateItemsPriceFirst(items, index + 1)

\* the loop over the items: the error of the first item that has one
RECURSIVE validateItems(_, _)
validateItems(items, index) ==
    IF index > Len(items) THEN NoError
    ELSE IF items[index].ShortDescription = "" THEN ErrDescription
    ELSE IF ~MatchAll(items[index].ShortDescription, DescriptionChars) THEN ErrDescription
    ELSE IF ~MatchDecimal(items[index].Price) THEN ErrPrice
    ELSE validateItems(items, index + 1)

validateReceipt(receipt) ==
    IF receipt.Retailer = "" THEN ErrRetailer
    ELSE IF ~MatchAll(receipt.Retailer, RetailerChars) THEN ErrRetailer
    ELSE IF ~ParseDate(receipt.PurchaseDate).ok THEN ErrDate
    ELSE IF ~ParseTime(receipt.PurchaseTime).ok THEN ErrTime
    ELSE IF Len(receipt.Items) < 1 THEN ErrItems
    ELSE IF validateItems(receipt.Items, 1) # NoError THEN validateItems(receipt.Items, 1)
    ELSE IF ~MatchDecimal(receipt.Total) THEN ErrTotal
    ELSE NoError

(***************************************************************************)
(* The points engine.                                                      *)
(***************************************************************************)
countAlphanumeric(s) ==
    Cardinality({i \in 1..Len(s) : Char(s, i) \in Lower \cup Upper \cup Digits})

\* the constants 0.2 and 0.25 as float64
PriceFactor == F64Ratio[<<2>>, 10]

Quarter == F64Ratio[<<25>>, 100]

Quote == "\""

RuleResult == [points : Big, lines : Seq(STRING)]

NoAward == [points |-> <<>>, lines |-> <<>>]

Rule1Line[retailer \in STRING, retailerPoints \in STRING] ==
    retailerPoints \o " points - retailer name (" \o retailer \o ") has "
        \o retailerPoints \o " alphanumeric characters"

Rule1(receipt) ==
    [points |-> BNat(countAlphanumeric(receipt.Retailer)),
     lines  |-> <<Rule1Line[receipt.Retailer,
                            IntToString[BNat(countAlphanumeric(receipt.Retailer))]]>>]

\* total == float64(int(total))
Rule2Applies[total \in Float64] == F64IsInt[total] /\ IntOfNat[F64Trunc[total]] = F64Trunc[total]

Rule2(receipt) ==
    IF Rule2Applies[ParseFloat[receipt.Total]]
    THEN [points |-> BNat(50),
          lines  |-> <<"50 points - total is a round dollar amount with no cents">>]
    ELSE NoAward

\* math.Mod(total, 0.25) == 0
Rule3Applies[total \in Float64] == F64ModIsZero[total, Quarter]

Rule3(receipt) ==
    IF Rule3Applies[ParseFloat[receipt.Total]]
    THEN [points |-> BNat(25), lines |-> <<"25 points - total is a multiple of 0.25">>]
    ELSE NoAward

Rule4(receipt) ==
    [points |-> BNat((Len(receipt.Items) \div 2) * 5),
     lines  |-> <<IntToString[BNat((Len(receipt.Items) \div 2) * 5)] \o " points - "
                    \o Itoa[Len(receipt.Items)] \o " items ("
                    \o Itoa[Len(receipt.Items) \div 2] \o " pairs @ 5 points each)">>]

\* descLength%3 == 0
Rule5Applies(item) == Len(TrimSpace(item.ShortDescription)) % 3 = 0

\* int(math.Ceil(totalPrice))
Rule5Points[totalPrice \in Float64] == IntOfNat[F64Ceil[totalPrice]]

Rule5Line[description \in STRING, price \in Float64, totalPrice \in Float64, itemPoints \in STRING] ==
    itemPoints \o " points - " \o Quote \o description \o Quote \o " is "
        \o Itoa[Len(description)] \o " characters (a multiple of 3), item price "
        \o FormatFixed2[price] \o " * 0.2 = " \o FormatFixed2[totalPrice]
        \o " which is rounded to: " \o itemPoints \o " points"

\* the body of the loop of rule 5, for an item the rule applies to
Rule5Award[description \in STRING, price \in Float64, totalPrice \in Float64] ==
    [points |-> Rule5Points[totalPrice],
     lines  |-> <<Rule5Line[description, price, totalPrice,
                            IntToString[Rule5Points[totalPrice]]]>>]

Rule5Priced[description \in STRING, price \in Float64] ==
    Rule5Award[description, price, F64Mul[price, PriceFactor]]

Rule5Item(item) ==
    IF Rule5Applies(item)
    THEN Rule5Priced[TrimSpace(item.ShortDescription), ParseFloat[item.Price]]
    ELSE NoAward

Rule6Applies(receipt) == ParseDate(receipt.PurchaseDate).day % 2 # 0

Rule6(receipt) ==
    IF Rule6Applies(receipt)
    THEN [points |-> BNat(6), lines |-> <<"6 points - purchase day is odd">>]
    ELSE NoAward

Rule7Applies(receipt) == ParseTime(receipt.PurchaseTime).hour \in {14, 15}

Rule7(receipt) ==
    IF Rule7Applies(receipt)
    THEN [points |-> BNat(10),
          lines  |-> <<"10 points - purchase time is between 2:00pm and 4:00pm">>]
    ELSE NoAward

Scored == [points : Big, breakdown : Seq(STRING)]

\* points += p; breakdown = append(breakdown, line)
Award[acc \in Scored, rule \in RuleResult] ==
    [points |-> IntAdd[acc.points, rule.points], breakdown |-> acc.breakdown \o rule.lines]

\* the rules with the day's rule run before the items' rule
\* (C2_BreakdownInRuleOrder tells it from RulesOf)
RulesOfReordered(receipt) ==
    <<Rule1(receipt), Rule2(receipt), Rule3(receipt), Rule4(receipt), Rule6(receipt)>>
        \o [i \in 1..Len(receipt.Items) |-> Rule5Item(receipt.Items[i])]
        \o <<Rule7(receipt)>>

\* the rules in the order the engine runs them, each with what it awards
RulesOf(receipt) ==
    <<Rule1(receipt), Rule2(receipt), Rule3(receipt), Rule4(receipt)>>
        \o [i \in 1..Len(receipt.Items) |-> Rule5Item(receipt.Items[i])]
        \o <<Rule6(receipt), Rule7(receipt)>>

\* the engine after its first n steps
AwardAll[rules \in Seq(RuleResult), n \in Nat] ==
    IF n = 0 THEN [points |-> <<>>, breakdown |-> <<>>]
    ELSE Award[AwardAll[rules, n - 1], rules[n]]

Engine[rules \in Seq(RuleResult)] == AwardAll[rules, Len(rules)]

calculatePoints(receipt) == Engine[RulesOf(receipt)]

(***************************************************************************)
(* Identifiers (github.com/google/uuid).                                   *)
(***************************************************************************)
HexChars == CharsOf("0123456789abcdefABCDEF")

\* xxxxxxxx-xxxx-xxxx-xxxx-xxxxxxxxxxxx, from position off + 1 of s
HyphenatedAt(s, off) ==
    \A i \in 1..36 :
        IF i \in {9, 14, 19, 24} THEN Char(s, off + i) = "-"
        ELSE Char(s, off + i) \in HexChars

ToLower(s, i) ==
    IF Char(s, i) \in Upper
    THEN Char("abcdefghijklmnopqrstuvwxyz",
              CHOOSE k \in 1..26 : Char("ABCDEFGHIJKLMNOPQRSTUVWXYZ", k) = Char(s, i))
    ELSE Char(s, i)

\* a check of the length alone (C5_IdentifierBeforeStore tells it from isValidUUID)
isValidUUIDByLength(u) == Len(u) \in {32, 36, 38, 45}

\* uuid.Parse(u) succeeds: by length, the hyphenated form, that form after
\* "urn:uuid:" (in any case) or between two more characters, or 32
\* hexadecimal digits
isValidUUID(u) ==
    CASE Len(u) = 36 -> HyphenatedAt(u, 0)
      [] Len(u) = 45 -> /\ \A i \in 1..9 : ToLower(u, i) = Char("urn:uuid:", i)
                        /\ HyphenatedAt(u, 9)
      [] Len(u) = 38 -> HyphenatedAt(u, 1)
      [] Len(u) = 32 -> \A i \in 1..32 : Char(u, i) \in HexChars
      [] OTHER -> FALSE

(***************************************************************************)
(* Path handling (package strings).                                        *)
(***************************************************************************)
HasPrefix(s, prefix) == Len(s) >= Len(prefix) /\ SubSeq(s, 1, Len(prefix)) = prefix

HasSuffix(s, suffix) ==
    Len(s) >= Len(suffix) /\ SubSeq(s, Len(s) - Len(suffix) + 1, Len(s)) = suffix

TrimPrefix(s, prefix) == IF HasPrefix(s, prefix) THEN SubSeq(s, Len(prefix) + 1, Len(s)) ELSE s

TrimSuffix(s, suffix) == IF HasSuffix(s, suffix) THEN SubSeq(s, 1, Len(s) - Len(suffix)) ELSE s

(***************************************************************************)
(* The state.                                                              *)
(***************************************************************************)
VARIABLES
    receipts,   \* the map of stored receipts, by identifier
    mutex,      \* the handler holding the mutex, 0 when it is unlocked
    handlers,   \* each running handler: its position, request and locals
    issued,     \* the identifiers generated so far, each with the receipt as scored
    answered,   \* the identifiers a submission has answered with
    served,     \* the number of requests accepted so far
    input,      \* the engine alone: the receipt handed to it
    verdict,    \* the engine alone: what validateReceipt returned
    score,      \* the engine alone: what calculatePoints returned
    stage       \* the engine alone: submitted, validated or scored

vars == <<receipts, mutex, handlers, issued, answered, served, input, verdict, score, stage>>

serverVars == <<receipts, mutex, handlers, issued, answered, served>>

engineVars == <<input, verdict, score, stage>>

\* bounds of the model
NumHandlers == 2

MaxRequests == 3

MaxItems == 2

Handlers == 1..NumHandlers

(***************************************************************************)
(* Receipts and request bodies.                                            *)
(***************************************************************************)
Item(description, price) == [ShortDescription |-> description, Price |-> price]

Receipt(retailer, date, time, items, total) ==
    [ID |-> "", Retailer |-> retailer, PurchaseDate |-> date, PurchaseTime |-> time,
     Items |-> items, Total |-> total, Points |-> <<>>, Breakdown |-> <<>>]

ZeroReceipt == Receipt("", "", "", <<>>, "")

Field(object, name, zero) == IF name \in DOMAIN object THEN object[name] ELSE zero

\* json.NewDecoder(r.Body).Decode(&receipt) of a body that is a JSON object
\* with fields of the right types: an absent field keeps its zero value, and
\* Points (json:"-") is never read
Decode(object) ==
    LET items == Field(object, "items", <<>>)
    IN  [ID |-> Field(object, "id", ""),
         Retailer |-> Field(object, "retailer", ""),
         PurchaseDate |-> Field(object, "purchaseDate", ""),
         PurchaseTime |-> Field(object, "purchaseTime", ""),
         Items |-> [i \in 1..Len(items) |->
                      Item(Field(items[i], "shortDescription", ""),
                           Field(items[i], "price", ""))],
         Total |-> Field(object, "total", ""),
         Points |-> <<>>,
         Breakdown |-> Field(object, "Breakdown", <<>>)]

JsonItem(description, price) == [shortDescription |-> description, price |-> price]

\* the identifiers uuid.NewString can return in this model
UUIDs ==
    {"cb445f45-21e3-48b6-acd9-3150c9ed429c",
     "7fb1377b-b223-49d9-a31a-5a02701dd310"}

\* the README's payload (28 points)
TargetBody ==
    [kind |-> "object",
     object |-> [retailer |-> "Target", purchaseDate |-> "2022-01-01",
                 purchaseTime |-> "13:01", total |-> "35.35",
                 items |-> <<JsonItem("Mountain Dew 12PK", "6.49"),
                             JsonItem("Emils Cheese Pizza", "12.25"),
                             JsonItem("Knorr Creamy Soup", "1.26"),
                             JsonItem("Doritos Nacho Cheese", "3.35"),
                             JsonItem("   Klarbrunn 12-PK 12 FL OZ  ", "12.00")>>]]

\* a valid receipt that also sends an id and a Breakdown of its own
MarketBody ==
    [kind |-> "object",
     object |-> [id |-> "cb445f45-21e3-48b6-acd9-3150c9ed429c",
                 Breakdown |-> <<"1000 points - a gift">>,
                 retailer |-> "M&M Corner Market", purchaseDate |-> "2022-03-20",
                 purchaseTime |-> "14:33", total |-> "9.00",
                 items |-> <<JsonItem("Gatorade", "2.25"), JsonItem("Gatorade", "2.25")>>]]

\* the price 6.5 has one fractional digit
BadPriceBody ==
    [kind |-> "object",
     object |-> [retailer |-> "Target", purchaseDate |-> "2022-01-01",
                 purchaseTime |-> "13:01", total |-> "6.50",
                 items |-> <<JsonItem("Gatorade", "6.5")>>]]

\* an object without any field: every field keeps its zero value
EmptyBody == [kind |-> "object", object |-> <<>>]

\* a body Decode returns an error for: not JSON, or JSON with a field of
\* another type than the Receipt's
MalformedBody == [kind |-> "error", object |-> <<>>]

NoBody == [kind |-> "none", object |-> <<>>]

Bodies == {TargetBody, MarketBody, BadPriceBody, EmptyBody, MalformedBody}

\* identifiers a client may look up: the ones the service can issue, one of
\* them in upper case, and malformed ones
UpperID == "CB445F45-21E3-48B6-ACD9-3150C9ED429C"

ShortID == "cb445f45"

BadHexID == "cb445f45-21e3-48b6-acd9-3150c9ed429g"

MalformedIDs == {ShortID, BadHexID}

LookupIDs == UUIDs \cup {UpperID} \cup MalformedIDs

Requests ==
    {[method |-> "POST", path |-> "/receipts/process", body |-> b] : b \in Bodies}
    \cup {[method |-> "GET", path |-> "/receipts/process", body |-> NoBody]}
    \cup {[method |-> "GET", path |-> "/receipts/" \o id \o suffix, body |-> NoBody] :
            id \in LookupIDs, suffix \in {"/points", "/breakdown"}}
    \cup {[method |-> "POST", path |-> "/receipts/" \o UpperID \o "/points", body |-> NoBody],
          [method |-> "GET", path |-> "/receipts/" \o UpperID, body |-> NoBody]}

(***************************************************************************)
(* Responses.                                                              *)
(***************************************************************************)
NoResponse ==
    [status |-> 0, endpoint |-> "", error |-> "", id |-> "", points |-> <<>>,
     breakdown |-> <<>>]

\* http.Error(w, message, status)
HttpError(message, status) == [NoResponse EXCEPT !.status = status, !.error = message]

Idle ==
    [pc |-> "idle", fn |-> "", method |-> "", path |-> "", body |-> NoBody, id |-> "",
     receipt |-> ZeroReceipt, found |-> FALSE, known |-> FALSE, response |-> NoResponse]

\* the identifier handleRequests takes from a path
PathID(path) ==
    LET id == TrimPrefix(path, "/receipts/")
    IN  IF HasSuffix(id, "/points") THEN TrimSuffix(id, "/points")
        ELSE TrimSuffix(id, "/breakdown")

(***************************************************************************)
(* The server.  net/http runs each request's handler in a goroutine of its *)
(* own; a handler takes one step for each stretch of code between two      *)
(* accesses to the shared state (the mutex, the map, the source of         *)
(* identifiers).  The first step takes the request from its arrival to the *)
(* first such access, or to the response when there is none.               *)
(***************************************************************************)
\* the handler's locals when the mux hands it the request; known records
\* whether a submission had already answered with the identifier of the path
Arrived(req) ==
    [Idle EXCEPT !.method = req.method, !.path = req.path, !.body = req.body,
                 !.known = PathID(req.path) \in answered]

ToProcess(req) == req.path = "/receipts/process"

Answer(h, req, response) ==
    /\ handlers' = [handlers EXCEPT ![h] = [Arrived(req) EXCEPT !.pc = "done",
                                                                !.response = response]]
    /\ served' = served + 1

Done(h, response) ==
    handlers' = [handlers EXCEPT ![h].pc = "done", ![h].response = response]

Free(h) == handlers[h].pc = "idle" /\ served < MaxRequests

ProcessRejectMethod(h) ==
    /\ Free(h)
    /\ \E req \in Requests :
          /\ ToProcess(req)
          /\ req.method # "POST"
          /\ Answer(h, req, HttpError("Only POST method is allowed", 405))
    /\ UNCHANGED <<receipts, mutex, issued, answered, engineVars>>

ProcessRejectJSON(h) ==
    /\ Free(h)
    /\ \E req \in Requests :
          /\ ToProcess(req)
          /\ req.method = "POST"
          /\ req.body.kind # "object"
          /\ Answer(h, req, HttpError("Invalid JSON format", 400))
    /\ UNCHANGED <<receipts, mutex, issued, answered, engineVars>>

\* what processReceipt computes from a body before it touches the shared
\* state depends on the body alone: the bodies validateReceipt refuses, each
\* with the error, and the ones it accepts, each as decoded and as scored
Refused ==
    {r \in {[body |-> b, err |-> validateReceipt(Decode(b.object))] :
                b \in {b \in Bodies : b.kind = "object"}} : r.err # NoError}

Accepted ==
    {[body |-> b, receipt |-> Decode(b.object), scored |-> calculatePoints(Decode(b.object))] :
        b \in {b \in Bodies : b.kind = "object" /\ validateReceipt(Decode(b.object)) = NoError}}

\* a handler that stores the receipt before it validates it
\* (C6_RefusedSubmissions tells it from ProcessRejectReceipt)
ProcessRejectReceiptStored(h) ==
    /\ Free(h)
    /\ \E req \in Requests, r \in Refused :
          /\ ToProcess(req)
          /\ req.method = "POST"
          /\ req.body = r.body
          /\ Answer(h, req, HttpError("Invalid receipt: " \o r.err, 400))
          /\ receipts' = [i \in DOMAIN receipts \cup {Decode(r.body.object).ID} |->
                            IF i = Decode(r.body.object).ID THEN Decode(r.body.object) ELSE receipts[i]]
    /\ UNCHANGED <<mutex, issued, answered, engineVars>>

ProcessRejectReceipt(h) ==
    /\ Free(h)
    /\ \E req \in Requests, r \in Refused :
          /\ ToProcess(req)
          /\ req.method = "POST"
          /\ req.body = r.body
          /\ Answer(h, req, HttpError("Invalid receipt: " \o r.err, 400))
    /\ UNCHANGED <<receipts, mutex, issued, answered, engineVars>>

\* uuid.NewString() and calculatePoints; the identifier is a new one
ProcessScore(h) ==
    /\ Free(h)
    /\ \E req \in Requests, a \in Accepted, id \in UUIDs \ DOMAIN issued :
          /\ ToProcess(req)
          /\ req.method = "POST"
          /\ req.body = a.body
          /\ \E receipt \in {[a.receipt EXCEPT !.ID = id, !.Points = a.scored.points,
                                              !.Breakdown = a.scored.breakdown]} :
                /\ handlers' = [handlers EXCEPT ![h] =
                      [Arrived(req) EXCEPT !.pc = "lock", !.fn = "processReceipt",
                                           !.receipt = receipt]]
                /\ issued' = [i \in DOMAIN issued \cup {id} |->
                                IF i = id THEN receipt ELSE issued[i]]
    /\ served' = served + 1
    /\ UNCHANGED <<receipts, mutex, answered, engineVars>>

LookupRejectMethod(h) ==
    /\ Free(h)
    /\ \E req \in Requests :
          /\ ~ToProcess(req)
          /\ req.method # "GET"
          /\ Answer(h, req, HttpError("Only GET method is allowed", 405))
    /\ UNCHANGED <<receipts, mutex, issued, answered, engineVars>>

Endpoint(req) ==
    IF HasSuffix(TrimPrefix(req.path, "/receipts/"), "/points") THEN "getPoints"
    ELSE IF HasSuffix(TrimPrefix(req.path, "/receipts/"), "/breakdown") THEN "getBreakdown"
    ELSE ""

LookupRejectEndpoint(h) ==
    /\ Free(h)
    /\ \E req \in Requests :
          /\ ~ToProcess(req)
          /\ req.method = "GET"
          /\ Endpoint(req) = ""
          /\ Answer(h, req, HttpError("Invalid endpoint", 404))
    /\ UNCHANGED <<receipts, mutex, issued, answered, engineVars>>

\* getPoints or getBreakdown with an identifier isValidUUID refuses
LookupRejectID(h) ==
    /\ Free(h)
    /\ \E req \in Requests :
          /\ ~ToProcess(req)
          /\ req.method = "GET"
          /\ Endpoint(req) # ""
          /\ ~isValidUUID(PathID(req.path))
          /\ Answer(h, req, [HttpError("Invalid ID format", 400) EXCEPT
                               !.endpoint = Endpoint(req)])
    /\ UNCHANGED <<receipts, mutex, issued, answered, engineVars>>

\* getPoints or getBreakdown, up to its mutex.Lock()
Lookup(h) ==
    /\ Free(h)
    /\ \E req \in Requests :
          /\ ~ToProcess(req)
          /\ req.method = "GET"
          /\ Endpoint(req) # ""
          /\ isValidUUID(PathID(req.path))
          /\ handlers' = [handlers EXCEPT ![h] =
                [Arrived(req) EXCEPT !.pc = "lock", !.fn = Endpoint(req),
                                     !.id = PathID(req.path)]]
    /\ served' = served + 1
    /\ UNCHANGED <<receipts, mutex, issued, answered, engineVars>>

\* a Lock that does not wait for the mutex (C7_MapUnderMutex tells it from Lock)
LockNoWait(h) ==
    /\ handlers[h].pc = "lock"
    /\ mutex' = h
    /\ handlers' = [handlers EXCEPT ![h].pc =
                      IF handlers[h].fn = "processReceipt" THEN "store" ELSE "read"]
    /\ UNCHANGED <<receipts, issued, answered, served, engineVars>>

\* mutex.Lock()
Lock(h) ==
    /\ handlers[h].pc = "lock"
    /\ mutex = 0
    /\ mutex' = h
    /\ handlers' = [handlers EXCEPT ![h].pc =
                      IF handlers[h].fn = "processReceipt" THEN "store" ELSE "read"]
    /\ UNCHANGED <<receipts, issued, answered, served, engineVars>>

\* a Store that replaces the map by one holding the new receipt alone
\* (C4_LookupAfterSubmission tells it from Store)
StoreAlone(h) ==
    /\ handlers[h].pc = "store"
    /\ receipts' = [i \in {handlers[h].receipt.ID} |-> handlers[h].receipt]
    /\ handlers' = [handlers EXCEPT ![h].pc = "unlock"]
    /\ UNCHANGED <<mutex, issued, answered, served, engineVars>>

\* receipts[receipt.ID] = receipt
Store(h) ==
    /\ handlers[h].pc = "store"
    /\ receipts' = [i \in DOMAIN receipts \cup {handlers[h].receipt.ID} |->
                      IF i = handlers[h].receipt.ID THEN handlers[h].receipt
                      ELSE receipts[i]]
    /\ handlers' = [handlers EXCEPT ![h].pc = "unlock"]
    /\ UNCHANGED <<mutex, issued, answered, served, engineVars>>

\* receipt, found := receipts[id]
Read(h) ==
    /\ handlers[h].pc = "read"
    /\ handlers' = [handlers EXCEPT
          ![h].pc = "unlock",
          ![h].found = handlers[h].id \in DOMAIN receipts,
          ![h].receipt = IF handlers[h].id \in DOMAIN receipts
                         THEN receipts[handlers[h].id] ELSE ZeroReceipt]
    /\ UNCHANGED <<receipts, mutex, issued, answered, served, engineVars>>

\* mutex.Unlock() and the response of processReceipt
ProcessRespond(h) ==
    /\ handlers[h].pc = "unlock"
    /\ handlers[h].fn = "processReceipt"
    /\ mutex' = 0
    /\ Done(h, [NoResponse EXCEPT !.status = 200, !.id = handlers[h].receipt.ID])
    /\ answered' = answered \cup {handlers[h].receipt.ID}
    /\ UNCHANGED <<receipts, issued, served, engineVars>>

\* mutex.Unlock() and the response of a lookup that found nothing
LookupNotFound(h) ==
    /\ handlers[h].pc = "unlock"
    /\ handlers[h].fn \in {"getPoints", "getBreakdown"}
    /\ ~handlers[h].found
    /\ mutex' = 0
    /\ Done(h, [HttpError("Receipt not found", 404) EXCEPT !.endpoint = handlers[h].fn])
    /\ UNCHANGED <<receipts, issued, answered, served, engineVars>>

\* mutex.Unlock() and the response of a lookup that found the receipt
LookupRespond(h) ==
    /\ handlers[h].pc = "unlock"
    /\ handlers[h].fn \in {"getPoints", "getBreakdown"}
    /\ handlers[h].found
    /\ mutex' = 0
    /\ Done(h, [NoResponse EXCEPT
                  !.status = 200,
                  !.endpoint = handlers[h].fn,
                  !.points = handlers[h].receipt.Points,
                  !.breakdown = IF handlers[h].fn = "getBreakdown"
                                THEN handlers[h].receipt.Breakdown ELSE <<>>])
    /\ UNCHANGED <<receipts, issued, answered, served, engineVars>>

\* the handler returns and its goroutine ends
Return(h) ==
    /\ handlers[h].pc = "done"
    /\ handlers' = [handlers EXCEPT ![h] = Idle]
    /\ UNCHANGED <<receipts, mutex, issued, answered, served, engineVars>>

ServerInit ==
    /\ receipts = <<>>
    /\ mutex = 0
    /\ handlers = [h \in Handlers |-> Idle]
    /\ issued = <<>>
    /\ answered = {}
    /\ served = 0

Init ==
    /\ ServerInit
    /\ input = ZeroReceipt
    /\ verdict = NoError
    /\ score = [points |-> <<>>, breakdown |-> <<>>]
    /\ stage = "none"

Next ==
    \E h \in Handlers :
        \/ ProcessRejectMethod(h)
        \/ ProcessRejectJSON(h)
        \/ ProcessRejectReceipt(h)
        \/ ProcessScore(h)
        \/ LookupRejectMethod(h)
        \/ LookupRejectEndpoint(h)
        \/ LookupRejectID(h)
        \/ Lookup(h)
        \/ Lock(h)
        \/ Store(h)
        \/ Read(h)
        \/ ProcessRespond(h)
        \/ LookupNotFound(h)
        \/ LookupRespond(h)
        \/ Return(h)

Spec == Init /\ [][Next]_vars

(***************************************************************************)
(* The validator and the engine alone: a receipt is submitted, validated   *)
(* and, when valid, scored, as processReceipt does with a decoded body.    *)
(***************************************************************************)
SeqsUpTo(S, n) == UNION {[1..k -> S] : k \in 0..n}

GoodItem == Item("Gatorade", "2.25")

\* an asterisk in the description
BadDescriptionItem == Item("Piz*za", "1.00")

\* one fractional digit
BadPriceItem == Item("Soup", "6.5")

\* an empty description and a price of one fractional digit
BadItem == Item("", "6.5")

OrderItems == {GoodItem, BadDescriptionItem, BadPriceItem, BadItem}

\* items for the engine: descriptions of 18, 8, 24 (trimmed), 0 (trimmed), 6
\* and 9 (trimmed) characters, and prices up to 3 * 10^19
ScoreItems ==
    {Item("Emils Cheese Pizza", "12.25"),
     GoodItem,
     Item("   Klarbrunn 12-PK 12 FL OZ  ", "12.00"),
     Item(" ", "2.45"),
     Item("Dasani", "2.45"),
     Item("\tabc def 1\r\n", "5.00"),
     Item("abc", "30000000000000000000.00"),
     Item("Tea", "140737488355330.01")}

RetailerPool ==
    {"Target", "M&M Corner Market", "Walgreens-24", " - & ", "___", "a_b", "a\tb", "\r\n",
     "", "Tar$get", "7.11", "Toys'R'Us"}

DatePool ==
    {"2022-01-01", "2022-03-20", "2024-02-29", "2023-02-29", "2022-04-31", "2022-13-01",
     "2022-1-1", "01/02/2022", "2022-01-01 ", ""}

TimePool ==
    {"13:01", "13:59", "14:00", "14:33", "15:59", "16:00", "9:05", "24:00", "25:00",
     "12:60", "1:5", "14:33:00", ""}

ValidTotals == {"35.35", "10.00", "9.25", "0.00", "0.50", "1.75", "140737488355328.01"}

TotalPool == ValidTotals \cup {"35", "1.5", ".50", "12.345", "-1.00", ""}

\* receipts with every combination of valid and invalid fields
Ordering ==
    {Receipt(retailer, date, time, items, total) :
        retailer \in {"Target", "Tar$get"}, date \in {"2022-01-01", "2022-13-01"},
        time \in {"13:01", "25:00"}, items \in SeqsUpTo(OrderItems, MaxItems),
        total \in {"35.35", "35"}}

\* valid receipts with every combination of the conditions of rules 1, 2, 3, 6 and 7
Conditions ==
    {Receipt(retailer, date, time, <<GoodItem>>, total) :
        retailer \in {"Target", " - & "}, date \in {"2022-01-01", "2022-03-20"},
        time \in {"13:01", "14:33", "15:59", "16:00"}, total \in ValidTotals}

\* valid receipts with every list of items
Priced ==
    {Receipt("Target", "2022-01-01", "14:33", items, "35.35") :
        items \in SeqsUpTo(ScoreItems, MaxItems) \ {<<>>}}

\* these, and receipts with one field varied at a time
EngineInputs ==
    Ordering \cup Conditions \cup Priced
        \cup {Decode(TargetBody.object), Decode(MarketBody.object)}
    \cup {Receipt(retailer, "2022-03-20", "13:01", <<GoodItem>>, "35.35") : retailer \in RetailerPool}
    \cup {Receipt("Target", date, "13:01", <<GoodItem>>, "35.35") : date \in DatePool}
    \cup {Receipt("Target", "2022-03-20", time, <<GoodItem>>, "35.35") : time \in TimePool}
    \cup {Receipt("Target", "2022-03-20", "13:01", <<GoodItem>>, total) : total \in TotalPool}

EngineInit ==
    /\ ServerInit
    /\ input \in EngineInputs
    /\ verdict = NoError
    /\ score = [points |-> <<>>, breakdown |-> <<>>]
    /\ stage = "submitted"

\* err := validateReceipt(receipt)
Validate ==
    /\ stage = "submitted"
    /\ verdict' = validateReceipt(input)
    /\ stage' = "validated"
    /\ UNCHANGED <<input, score, serverVars>>

\* err != nil: http.Error and return
Reject ==
    /\ stage = "validated"
    /\ verdict # NoError
    /\ stage' = "rejected"
    /\ UNCHANGED <<input, verdict, score, serverVars>>

\* points, breakdown := calculatePoints(receipt)
Score ==
    /\ stage = "validated"
    /\ verdict = NoError
    /\ score' = calculatePoints(input)
    /\ stage' = "scored"
    /\ UNCHANGED <<input, verdict, serverVars>>

EngineNext == Validate \/ Reject \/ Score

EngineSpec == EngineInit /\ [][EngineNext]_vars

(***************************************************************************)
(* Reading a breakdown.                                                    *)
(***************************************************************************)
\* the number of digits a line starts with
PrefixLen(line) ==
    CHOOSE k \in 0..Len(line) :
        /\ \A i \in 1..k : Char(line, i) \in Digits
        /\ k = Len(line) \/ Char(line, k + 1) \notin Digits

\* the integer a line starts with
LeadingInt(line) == BFromDigits[SubSeq(line, 1, PrefixLen(line))]

AfterPrefix(line) == SubSeq(line, PrefixLen(line) + 1, Len(line))

\* the sum of the integers the first n lines start with
SumOfPrefixes[lines \in Seq(STRING), n \in Nat] ==
    IF n = 0 THEN <<>> ELSE BAdd[SumOfPrefixes[lines, n - 1], LeadingInt(lines[n])]

\* the rule a line is of, by its text; 0 for a line of no rule
RuleOfLine(line) ==
    CASE HasPrefix(AfterPrefix(line), " points - retailer name (") -> 1
      [] AfterPrefix(line) = " points - total is a round dollar amount with no cents" -> 2
      [] AfterPrefix(line) = " points - total is a multiple of 0.25" -> 3
      [] HasSuffix(AfterPrefix(line), " pairs @ 5 points each)") -> 4
      [] HasPrefix(AfterPrefix(line), " points - \"") -> 5
      [] AfterPrefix(line) = " points - purchase day is odd" -> 6
      [] AfterPrefix(line) = " points - purchase time is between 2:00pm and 4:00pm" -> 7
      [] OTHER -> 0

\* the number of lines of a rule
LinesOf(breakdown, rule) ==
    Cardinality({i \in 1..Len(breakdown) : RuleOfLine(breakdown[i]) = rule})

IsRule5Line(line) == RuleOfLine(line) = 5

\* the description a line of rule 5 quotes
QuotedText(line) ==
    SubSeq(AfterPrefix(line), 12,
           (CHOOSE k \in 12..Len(AfterPrefix(line)) :
               /\ Char(AfterPrefix(line), k) = Quote
               /\ \A j \in 12..(k - 1) : Char(AfterPrefix(line), j) # Quote) - 1)

Trimmed(item) == TrimSpace(item.ShortDescription)

\* a price or total of the form \d+\.\d{2}, in cents
Cents(decimal) ==
    BFromDigits[SubSeq(decimal, 1, Len(decimal) - 3) \o SubSeq(decimal, Len(decimal) - 1, Len(decimal))]

\* cents / 500 rounded up
FifthRoundedUp(cents) ==
    IF BDivSmall[cents, 500].r = 0 THEN BDivSmall[cents, 500].q
    ELSE BAdd[BDivSmall[cents, 500].q, <<1>>]

(***************************************************************************)
(* Properties of the validator and the engine (under EngineSpec).          *)
(***************************************************************************)
\* C1: for every receipt that passes validateReceipt, the points calculatePoints
\* returns are the sum of the integers its breakdown lines start with.
C1_PointsArePrefixSum ==
    stage = "scored" =>
        /\ \A i \in 1..Len(score.breakdown) :
              /\ PrefixLen(score.breakdown[i]) > 0
              /\ HasPrefix(AfterPrefix(score.breakdown[i]), " points")
        /\ ~IntIsNeg(score.points)
        /\ score.points = SumOfPrefixes[score.breakdown, Len(score.breakdown)]

\* C1: two items of 6 * 10^18 points each have been scored and the total has
\* wrapped to a negative int
C1_WrappedTotal ==
    /\ stage = "scored"
    /\ Len(input.Items) = 2
    /\ IntIsNeg(score.points)
    /\ SumOfPrefixes[score.breakdown, Len(score.breakdown)] = BFromDigits["12000000000000000027"]

DayIsOdd(date) == Char(date, Len(date)) \in {"1", "3", "5", "7", "9"}

HourIs14Or15(time) == HasPrefix(time, "14:") \/ HasPrefix(time, "15:")

OneIf(condition) == IF condition THEN 1 ELSE 0

Check(violated, reason) == [violated |-> violated, reason |-> reason]

\* the checks the validator is to make, in their order
ChecksInOrder(receipt) ==
    <<Check(receipt.Retailer = "" \/ ~MatchAll(receipt.Retailer, RetailerChars), ErrRetailer),
      Check(~ParseDate(receipt.PurchaseDate).ok, ErrDate),
      Check(~ParseTime(receipt.PurchaseTime).ok, ErrTime),
      Check(Len(receipt.Items) = 0, ErrItems)>>
    \o [k \in 1..(2 * Len(receipt.Items)) |->
          IF k % 2 = 1
          THEN Check(\/ receipt.Items[(k + 1) \div 2].ShortDescription = ""
                     \/ ~MatchAll(receipt.Items[(k + 1) \div 2].ShortDescription,
                                  DescriptionChars),
                     ErrDescription)
          ELSE Check(~MatchDecimal(receipt.Items[k \div 2].Price), ErrPrice)]
    \o <<Check(~MatchDecimal(receipt.Total), ErrTotal)>>

FirstViolated(checks) ==
    IF \A k \in 1..Len(checks) : ~checks[k].violated THEN NoError
    ELSE checks[CHOOSE k \in 1..Len(checks) :
                   /\ checks[k].violated
                   /\ \A j \in 1..(k - 1) : ~checks[j].violated].reason

Reasons == {ErrRetailer, ErrDate, ErrTime, ErrItems, ErrDescription, ErrPrice, ErrTotal}

\* C3: validateReceipt returns the reason of the first violated check in the
\* order retailer, purchaseDate, purchaseTime, empty items, each item's
\* description then price, total; and the seven reasons differ from each other.
C3_FirstViolatedCheck ==
    /\ Cardinality(Reasons) = 7
    /\ NoError \notin Reasons
    /\ stage # "submitted" => verdict = FirstViolated(ChecksInOrder(input))

\* C3: the first item's price and the second item's description are invalid,
\* as is the total, and the price is what is reported
C3_PriceBeforeNextDescription ==
    /\ stage = "rejected"
    /\ Len(input.Items) = 2
    /\ MatchAll(input.Items[1].ShortDescription, DescriptionChars)
    /\ ~MatchDecimal(input.Items[1].Price)
    /\ ~MatchAll(input.Items[2].ShortDescription, DescriptionChars)
    /\ ~MatchDecimal(input.Total)
    /\ verdict = ErrPrice

StatedRetailerChars ==
    CharsOf("abcdefghijklmnopqrstuvwxyzABCDEFGHIJKLMNOPQRSTUVWXYZ0123456789 -&")

\* C8, as stated: the retailer is reported invalid exactly when it is empty or
\* has a character that is no ASCII letter, digit, space, hyphen or ampersand.
C8_RetailerAsStated ==
    stage # "submitted" =>
        (verdict = ErrRetailer <=>
            \/ input.Retailer = ""
            \/ \E i \in 1..Len(input.Retailer) : Char(input.Retailer, i) \notin StatedRetailerChars)

\* C8, amended: the retailer is reported invalid exactly when it is empty or
\* has a character that is no ASCII letter, digit, underscore, space, tab,
\* line feed, form feed, carriage return, hyphen or ampersand.
C8_RetailerAmended ==
    stage # "submitted" =>
        (verdict = ErrRetailer <=>
            \/ input.Retailer = ""
            \/ \E i \in 1..Len(input.Retailer) :
                  Char(input.Retailer, i) \notin
                      StatedRetailerChars \cup {"_", "\t", "\n", "\f", "\r"})

\* C8: a retailer with an underscore, or with a tab, has passed the validator
C8_UnderscoreAccepted ==
    /\ stage = "scored"
    /\ input.Retailer \in {"a_b", "a\tb"}
    /\ verdict = NoError

QualifiesAsStated(item) == Len(Trimmed(item)) > 0 /\ Len(Trimmed(item)) % 3 = 0

\* C9, as stated: rule 5 has a line for exactly the items whose trimmed
\* description has a length that is a positive multiple of 3, and the line of
\* such an item awards its price in cents divided by 500, rounded up.
C9_Rule5AsStated ==
    stage = "scored" =>
        \E lines \in {SelectSeq(score.breakdown, IsRule5Line)},
           items \in {SelectSeq(input.Items, QualifiesAsStated)} :
           /\ Len(lines) = Len(items)
           /\ \A i \in 1..Len(lines) :
                 /\ QuotedText(lines[i]) = Trimmed(items[i])
                 /\ LeadingInt(lines[i]) = FifthRoundedUp(Cents(items[i].Price))

\* C9: an item whose description is one space has been awarded a line of rule 5
C9_BlankDescriptionScored ==
    /\ stage = "scored"
    /\ Len(input.Items) = 1
    /\ Trimmed(input.Items[1]) = ""
    /\ LinesOf(score.breakdown, 5) = 1

FractionOf(decimal) == SubSeq(decimal, Len(decimal) - 1, Len(decimal))

\* C10, as stated: rule 2 awards its 50 points exactly when the total's two
\* fractional digits are 00, and rule 3 its 25 points exactly when the total
\* in cents is a multiple of 25 (100 being one, when the fraction is).
C10_TotalsAsStated ==
    stage = "scored" =>
        /\ LinesOf(score.breakdown, 2) = OneIf(FractionOf(input.Total) = "00")
        /\ LinesOf(score.breakdown, 3) = OneIf(FractionOf(input.Total) \in {"00", "25", "50", "75"})

\* C10: a total of 140737488355328.01 has been awarded rules 2 and 3
C10_CentsLost ==
    /\ stage = "scored"
    /\ FractionOf(input.Total) = "01"
    /\ LinesOf(score.breakdown, 2) = 1
    /\ LinesOf(score.breakdown, 3) = 1

(***************************************************************************)
(* Properties of the server (under Spec).                                  *)
(***************************************************************************)
\* a handler serving GET /receipts/{id}/points or GET /receipts/{id}/breakdown
IsLookup(handler) == handler.method = "GET" /\ Endpoint(handler) # ""

\* a lookup that arrived after a submission had answered with its identifier
\* and that has answered
AnsweredLookups ==
    {h \in Handlers : handlers[h].pc = "done" /\ IsLookup(handlers[h]) /\ handlers[h].known}

\* what such a lookup has answered: what was scored for its identifier
C4_LaterLookups ==
    \A h \in AnsweredLookups :
        /\ handlers[h].response.status = 200
        /\ handlers[h].response.points = issued[PathID(handlers[h].path)].Points
        /\ Endpoint(handlers[h]) = "getBreakdown" =>
              handlers[h].response.breakdown = issued[PathID(handlers[h].path)].Breakdown
        /\ issued[PathID(handlers[h].path)].Breakdown # <<>>

\* a step keeps every record of the store as it is
C4_RecordsKept ==
    \A id \in DOMAIN receipts : id \in DOMAIN receipts' /\ receipts'[id] = receipts[id]

\* C4: once a submission has answered with an identifier, every later lookup
\* of the identifier, on either endpoint, answers 200 with the points (and the
\* breakdown) computed when the receipt was submitted; and no step changes or
\* removes a record of the store.
C4_LookupAfterSubmission == [](C4_LaterLookups) /\ [][C4_RecordsKept]_vars

\* C4: a lookup has answered 200 for an identifier answered before it arrived,
\* with another submission stored in between
C4_LookupAnswered ==
    \E h \in AnsweredLookups :
        /\ handlers[h].response.status = 200
        /\ handlers[h].response.points # <<>>
        /\ Cardinality(DOMAIN receipts) = 2

WellFormedIDs == UUIDs \cup {UpperID}

\* C5: on both lookup endpoints, a handler with a malformed identifier never
\* gets to the mutex or the map and answers 400, and a handler with a
\* well-formed identifier the store does not hold answers 404; a 400 is
\* answered to a malformed identifier only.
C5_IdentifierBeforeStore ==
    \A h \in Handlers :
        /\ (handlers[h].pc \notin {"idle", "done"} /\ IsLookup(handlers[h])) =>
              PathID(handlers[h].path) \in WellFormedIDs
        /\ (handlers[h].pc = "done" /\ IsLookup(handlers[h])) =>
              /\ PathID(handlers[h].path) \in MalformedIDs =>
                    /\ handlers[h].response.status = 400
                    /\ handlers[h].response.error = "Invalid ID format"
                    /\ ~handlers[h].found
              /\ (PathID(handlers[h].path) \in WellFormedIDs
                    /\ PathID(handlers[h].path) \notin DOMAIN receipts) =>
                    /\ handlers[h].response.status = 404
                    /\ handlers[h].response.error = "Receipt not found"
              /\ handlers[h].response.status = 400 => PathID(handlers[h].path) \in MalformedIDs

\* C5: one lookup has answered 400 to a malformed identifier and another 404
\* to a well-formed one
C5_BothRefusals ==
    \E h, g \in Handlers :
        /\ handlers[h].pc = "done" /\ IsLookup(handlers[h])
        /\ PathID(handlers[h].path) \in MalformedIDs
        /\ handlers[h].response.status = 400
        /\ handlers[g].pc = "done" /\ IsLookup(handlers[g])
        /\ PathID(handlers[g].path) \in WellFormedIDs
        /\ handlers[g].response.status = 404

\* the bodies that are no JSON of the receipt's shape or hold an invalid receipt
BadBodies == {MalformedBody, BadPriceBody, EmptyBody}

BadSubmission(handler) ==
    handler.method = "POST" /\ handler.path = "/receipts/process" /\ handler.body \in BadBodies

\* a step in which a submission with a bad body arrives: it is answered 400 in
\* that step, with no receipt scored, no identifier and the store as it was
C6_Refused ==
    \A h \in Handlers :
        (handlers[h].pc = "idle" /\ handlers'[h].pc # "idle" /\ BadSubmission(handlers'[h])) =>
            /\ handlers'[h].pc = "done"
            /\ handlers'[h].response.status = 400
            /\ handlers'[h].response.id = ""
            /\ handlers'[h].receipt = ZeroReceipt
            /\ receipts' = receipts
            /\ issued' = issued
            /\ answered' = answered

\* a step that changes the store adds the receipt of a submission with a valid body
C6_Added ==
    receipts' # receipts =>
        \E h \in Handlers :
            /\ handlers[h].method = "POST"
            /\ handlers[h].body \in Bodies \ BadBodies
            /\ validateReceipt(handlers[h].receipt) = NoError
            /\ DOMAIN receipts' = DOMAIN receipts \cup {handlers[h].receipt.ID}
            /\ receipts'[handlers[h].receipt.ID] = handlers[h].receipt

\* C6: a submission whose body is malformed JSON or whose receipt fails
\* validation answers 400, is not scored, gets no identifier and leaves the
\* store unchanged; the store gets a record from a valid submission only.
C6_RefusedSubmissions == [][C6_Refused /\ C6_Added]_vars

\* C6: a submission with an invalid price has answered 400 while the store
\* holds a record
C6_RefusedWithStore ==
    \E h \in Handlers :
        /\ handlers[h].pc = "done"
        /\ handlers[h].body = BadPriceBody
        /\ handlers[h].response.status = 400
        /\ DOMAIN receipts # {}

\* the handlers between mutex.Lock() and mutex.Unlock()
InCriticalSection == {h \in Handlers : handlers[h].pc \in {"store", "read", "unlock"}}

\* C7: a handler reads or writes the map only while it holds the mutex, so at
\* most one handler is at the map at a time; and every submission that has
\* answered has its record in the store.
C7_MapUnderMutex ==
    /\ \A h \in InCriticalSection : mutex = h
    /\ Cardinality(InCriticalSection) <= 1
    /\ \A h \in Handlers :
          (handlers[h].pc = "done" /\ handlers[h].response.id # "") =>
              /\ handlers[h].response.id \in DOMAIN receipts
              /\ receipts[handlers[h].response.id] = handlers[h].receipt
    /\ answered \subseteq DOMAIN receipts

\* C7: a submission is at the map while a lookup waits for the mutex
C7_Contention ==
    \E h, g \in Handlers :
        /\ handlers[h].pc = "store"
        /\ handlers[g].pc = "lock"
        /\ handlers[g].fn # "processReceipt"

====
